---- MODULE Spec2Model ----
(***************************************************************************)
(* Model of the recovery state data model (src/recovery/model/state.rs):   *)
(* the resume snapshot builder FlowStateBytes / StepStateBytes, the GC     *)
(* summary projection and the StateBytes payload encoding.                 *)
(***************************************************************************)
EXTENDS Integers, Sequences, FiniteSets, TLC

(* ------------------------------ bounds --------------------------------- *)
MaxLog == 3        \* changes written into one FlowStateBytes
MaxClaims == 2     \* FlowStateBytes::remove calls in one run
MaxReplay == 3     \* length of a replayed log in the reordering runs
MaxEpoch == 2      \* snapshot epochs of the store changes that are summarized
MaxStrLen == 2     \* length of the strings that are serialized
MaxHandles == 2    \* handles to one shared StateWriter
MaxStoreLog == 2   \* changes written through the handles
MaxStepOps == 4    \* calls on one StepStateBytes

(* ------------------------------ domains -------------------------------- *)
StepIds == {"a", "b"}
StateKeys == {"k1", "k2"}
Payloads == {1, 2}          \* bytes1, bytes2
NoValue == 0                \* Option::None for a looked-up value

VARIABLES
    flow,       \* FlowStateBytes.0 : StepId -> (StateKey -> StateBytes)
    log,        \* the FlowChange entries written so far, in call order
    op,         \* the last call: [kind, step, key]
    ret,        \* the StepStateBytes returned by the last remove
    warned,     \* whether the last call emitted tracing::warn!
    warnings,   \* number of warnings emitted so far
    claims,     \* number of FlowStateBytes::remove calls so far
    handed,     \* per step: remove calls that found an entry since the last write
    claimed     \* steps claimed by a remove and not written to since

VARIABLES
    perm,       \* a reordering of log that keeps each FlowKey's changes in order
    flow2,      \* the FlowStateBytes the reordered log is replayed into
    pos         \* number of entries of log and of perm replayed so far

mainVars == <<flow, log, op, ret, warned, warnings, claims, handed, claimed>>

VARIABLES
    chg1, chg2, \* two StoreChange entries handed to the GC summary projection
    sum1, sum2, \* their StoreChangeSummary
    gcDone      \* whether the projection has run

VARIABLES
    serTy,      \* the type T of StateBytes::ser::<T> and StateBytes::de::<T>
    serVal,     \* the value handed to ser
    bytes,      \* StateBytes.0
    deVal,      \* the value returned by de
    serPc       \* "start", "serialized", "decoded" or "panicked"

VARIABLES
    key1, key2, \* two StoreKeys that are compared
    eqRes,      \* the result of key1 == key2
    ordRes,     \* the result of comparing key1 with key2, "none" without an order
    epochOrd,   \* the result of comparing their SnapshotEpochs
    stateKeyOrd, \* the result of comparing their StateKeys
    cmpDone     \* whether the comparisons have run

VARIABLES
    heap,       \* the writers behind the handles: each one the log it has appended
    handles,    \* the Rc<RefCell<P>> handles: each one the writer it points to
    issued,     \* the changes written through any handle, in call order
    readOut,    \* what the StateReader of the store yielded
    readDone    \* whether the store has been read

VARIABLES
    jcfg,       \* a JaegerConfig: the one that is set up and pickled
    jtarget,    \* the JaegerConfig instance __setstate__ is called on
    jbefore,    \* jtarget as it was before the last __setstate__
    pickled,    \* the Python object handed to __setstate__
    setResult,  \* PyResult of the last __setstate__: "none", "Ok" or "ValueError"
    envHost,    \* OTEL_EXPORTER_JAEGER_AGENT_HOST
    envPort,    \* OTEL_EXPORTER_JAEGER_AGENT_PORT
    agentEndpoint, \* the endpoint of the installed agent pipeline, "unset" before setup
    jop         \* the last JaegerConfig method called

VARIABLES
    warned1,    \* steps whose claim on flow emitted the warning
    warned2,    \* steps whose claim on flow2 emitted the warning
    claimed2    \* steps that have claimed their state from flow2

VARIABLES
    owned,      \* StepStateBytes.0 of the snapshot a step owns
    got,        \* the Option<StateBytes> returned by the last StepStateBytes::remove
    emptyRes,   \* the result of the last is_empty()
    stepOp,     \* the last call on the snapshot: [kind, key]
    stepOps     \* number of calls on the snapshot

replayVars == <<perm, flow2, pos>>

stepVars == <<owned, got, emptyRes, stepOp, stepOps>>

claimVars == <<warned1, warned2, claimed2>>

jaegerVars == <<jcfg, jtarget, jbefore, pickled, setResult, envHost, envPort, agentEndpoint, jop>>

sharedVars == <<heap, handles, issued, readOut, readDone>>

cmpVars == <<key1, key2, eqRes, ordRes, epochOrd, stateKeyOrd, cmpDone>>

extVars == <<cmpVars, sharedVars, jaegerVars, claimVars, stepVars>>

gcVars == <<chg1, chg2, sum1, sum2, gcDone>>

serVars == <<serTy, serVal, bytes, deVal, serPc>>

vars == <<mainVars, replayVars, gcVars, serVars, extVars>>

(* ------------------------- key and change model ------------------------ *)
FlowKey(step_id, state_key) == <<step_id, state_key>>

Upsert(value) == [kind |-> "upsert", value |-> value]

Discard == [kind |-> "delete", value |-> NoValue]

\* the kind of a change, without a value
ChangeType(kind) == [kind |-> kind]

KChange(key, change) == [key |-> key, change |-> change]

Changes == {Upsert(v) : v \in Payloads} \cup {Discard}

FlowChanges == {KChange(FlowKey(s, k), c) : s \in StepIds, k \in StateKeys, c \in Changes}

(* ------------------------------ hash maps ------------------------------ *)
EmptyMap == [x \in {} |-> NoValue]

MapInsert(m, key, value) == [x \in (DOMAIN m) \cup {key} |-> IF x = key THEN value ELSE m[x]]

MapRemove(m, key) == [x \in (DOMAIN m) \ {key} |-> m[x]]

\* impl KWriter<K, V> for HashMap<K, V>: an upsert sets, a delete removes
HashMapWrite(m, kchange) ==
    IF kchange.change.kind = "upsert"
    THEN MapInsert(m, kchange.key, kchange.change.value)
    ELSE MapRemove(m, kchange.key)

(* ---------------------------- StepStateBytes --------------------------- *)
StepStateBytesDefault == EmptyMap

StepStateBytesWrite(m, kchange) == HashMapWrite(m, kchange)

(* ---------------------------- FlowStateBytes --------------------------- *)
FlowStateBytesNew == EmptyMap

FlowStateBytesIsEmpty(f) == DOMAIN f = {}

FlowStateBytesKeys(f) == DOMAIN f

\* variant: the step's entry is replaced by a fresh one on every write
FlowStateBytesWrite_Fresh(f, kchange) ==
    MapInsert(f, kchange.key[1],
              StepStateBytesWrite(StepStateBytesDefault, KChange(kchange.key[2], kchange.change)))

\* variant: the change is applied to every step's entry, not only its own
FlowStateBytesWrite_Shared(f, kchange) ==
    [s \in (DOMAIN f) \cup {kchange.key[1]} |->
        StepStateBytesWrite(IF s \in DOMAIN f THEN f[s] ELSE StepStateBytesDefault,
                            KChange(kchange.key[2], kchange.change))]

\* variant: a delete drops the whole entry of the step
FlowStateBytesWrite_DiscardStep(f, kchange) ==
    IF kchange.change.kind = "delete"
    THEN MapRemove(f, kchange.key[1])
    ELSE MapInsert(f, kchange.key[1],
                   StepStateBytesWrite(IF kchange.key[1] \in DOMAIN f THEN f[kchange.key[1]]
                                                                      ELSE StepStateBytesDefault,
                                       KChange(kchange.key[2], kchange.change)))

\* self.0.entry(step_id).or_default().write(KChange(state_key, change))
FlowStateBytesWrite(f, kchange) ==
    LET step_id == kchange.key[1]
        state_key == kchange.key[2]
        entry == IF step_id \in DOMAIN f THEN f[step_id] ELSE StepStateBytesDefault
    IN MapInsert(f, step_id, StepStateBytesWrite(entry, KChange(state_key, kchange.change)))

\* variant: the warning is never emitted
FlowStateBytesRemove_NoWarn(f, step_id) ==
    IF step_id \in DOMAIN f
    THEN [flow |-> MapRemove(f, step_id), ret |-> f[step_id], warn |-> FALSE]
    ELSE [flow |-> f, ret |-> StepStateBytesDefault, warn |-> FALSE]

\* variant: the warning does not depend on the other steps
FlowStateBytesRemove_AlwaysWarn(f, step_id) ==
    IF step_id \in DOMAIN f
    THEN [flow |-> MapRemove(f, step_id), ret |-> f[step_id], warn |-> FALSE]
    ELSE [flow |-> f, ret |-> StepStateBytesDefault, warn |-> TRUE]

\* variant: the entry is read (get + clone) and stays in the map
FlowStateBytesRemove_Get(f, step_id) ==
    IF step_id \in DOMAIN f
    THEN [flow |-> f, ret |-> f[step_id], warn |-> FALSE]
    ELSE [flow |-> f, ret |-> StepStateBytesDefault, warn |-> ~FlowStateBytesIsEmpty(f)]

\* variant: the entry is taken (mem::take) and an empty one stays in the map
FlowStateBytesRemove_Take(f, step_id) ==
    IF step_id \in DOMAIN f
    THEN [flow |-> MapInsert(f, step_id, StepStateBytesDefault), ret |-> f[step_id], warn |-> FALSE]
    ELSE [flow |-> f, ret |-> StepStateBytesDefault, warn |-> ~FlowStateBytesIsEmpty(f)]

\* FlowStateBytes::remove: the map left behind, the value returned, the warning
FlowStateBytesRemove(f, step_id) ==
    IF step_id \in DOMAIN f
    THEN [flow |-> MapRemove(f, step_id), ret |-> f[step_id], warn |-> FALSE]
    ELSE [flow |-> f, ret |-> StepStateBytesDefault, warn |-> ~FlowStateBytesIsEmpty(f)]

(* ------------------------------ the builder ---------------------------- *)
InitMain ==
    /\ flow = FlowStateBytesNew
    /\ log = <<>>
    /\ op = [kind |-> "new", step |-> "", key |-> ""]
    /\ ret = StepStateBytesDefault
    /\ warned = FALSE
    /\ warnings = 0
    /\ claims = 0
    /\ handed = [s \in StepIds |-> 0]
    /\ claimed = {}

ReplayIdle == perm = <<>> /\ flow2 = FlowStateBytesNew /\ pos = 0

GcIdle ==
    /\ chg1 = KChange(<<0, FlowKey("", "")>>, Discard)
    /\ chg2 = KChange(<<0, FlowKey("", "")>>, Discard)
    /\ sum1 = KChange(<<0, FlowKey("", "")>>, ChangeType("none"))
    /\ sum2 = KChange(<<0, FlowKey("", "")>>, ChangeType("none"))
    /\ gcDone = FALSE

SerIdle ==
    /\ serTy = "bool"
    /\ serVal = FALSE
    /\ bytes = <<>>
    /\ deVal = FALSE
    /\ serPc = "start"

CmpIdle ==
    /\ key1 = <<0, <<<<>>, <<>>>>>>
    /\ key2 = <<0, <<<<>>, <<>>>>>>
    /\ eqRes = FALSE
    /\ ordRes = "none"
    /\ epochOrd = "none"
    /\ stateKeyOrd = "none"
    /\ cmpDone = FALSE

SharedIdle ==
    /\ heap = <<<<>>>>
    /\ handles = <<1>>
    /\ issued = <<>>
    /\ readOut = <<>>
    /\ readDone = FALSE

\* Option<String>
NoString == [some |-> FALSE, val |-> ""]

SomeString(v) == [some |-> TRUE, val |-> v]

\* JaegerConfig { service_name, endpoint }
JaegerConfig(service_name, endpoint) == [service_name |-> service_name, endpoint |-> endpoint]

\* Python objects: str, None and int values, tuples and lists of them
PyStr(v) == [ty |-> "str", val |-> v]

PyNone == [ty |-> "none", val |-> ""]

PyInt(v) == [ty |-> "int", val |-> v]

PyTuple(items) == [shape |-> "tuple", items |-> items]

PyList(items) == [shape |-> "list", items |-> items]

PyScalar(item) == [shape |-> "scalar", items |-> <<item>>]

JaegerIdle ==
    /\ jcfg = JaegerConfig("", NoString)
    /\ jtarget = JaegerConfig("", NoString)
    /\ jbefore = JaegerConfig("", NoString)
    /\ pickled = PyScalar(PyNone)
    /\ setResult = "none"
    /\ envHost = NoString
    /\ envPort = NoString
    /\ agentEndpoint = "unset"
    /\ jop = "new"

ClaimIdle == warned1 = {} /\ warned2 = {} /\ claimed2 = {}

StepIdle ==
    /\ owned = StepStateBytesDefault
    /\ got = NoValue
    /\ emptyRes = TRUE
    /\ stepOp = [kind |-> "default", key |-> ""]
    /\ stepOps = 0

ExtIdle == CmpIdle /\ SharedIdle /\ JaegerIdle /\ ClaimIdle /\ StepIdle

Init == InitMain /\ ReplayIdle /\ GcIdle /\ SerIdle /\ ExtIdle

Write ==
    /\ Len(log) < MaxLog
    /\ \E kchange \in FlowChanges :
        /\ flow' = FlowStateBytesWrite(flow, kchange)
        /\ log' = Append(log, kchange)
        /\ op' = [kind |-> "write", step |-> kchange.key[1], key |-> kchange.key[2]]
        /\ claimed' = claimed \ {kchange.key[1]}
    /\ warned' = FALSE
    /\ handed' = [s \in StepIds |-> 0]
    /\ UNCHANGED <<ret, warnings, claims, replayVars, gcVars, serVars, extVars>>

Remove ==
    /\ claims < MaxClaims
    /\ \E step_id \in StepIds :
        LET r == FlowStateBytesRemove(flow, step_id) IN
        /\ flow' = r.flow
        /\ ret' = r.ret
        /\ warned' = r.warn
        /\ warnings' = warnings + (IF r.warn THEN 1 ELSE 0)
        /\ op' = [kind |-> "remove", step |-> step_id, key |-> ""]
        /\ handed' = [handed EXCEPT ![step_id] = @ + (IF step_id \in FlowStateBytesKeys(flow) THEN 1 ELSE 0)]
        /\ claimed' = claimed \cup {step_id}
    /\ claims' = claims + 1
    /\ UNCHANGED <<log, replayVars, gcVars, serVars, extVars>>

Next == Write \/ Remove

(* --------------------- replay of a reordered log ------------------------ *)
RECURSIVE SeqsUpTo(_, _)
SeqsUpTo(S, n) ==
    IF n = 0
    THEN {<<>>}
    ELSE LET shorter == SeqsUpTo(S, n - 1)
         IN shorter \cup {Append(q, x) : q \in shorter, x \in S}

SwapAt(q, i) ==
    [j \in 1..Len(q) |-> IF j = i THEN q[i + 1] ELSE IF j = i + 1 THEN q[i] ELSE q[j]]

InitReplay ==
    /\ log \in SeqsUpTo(FlowChanges, MaxReplay)
    /\ perm = log
    /\ flow = FlowStateBytesNew
    /\ flow2 = FlowStateBytesNew
    /\ pos = 0
    /\ op = [kind |-> "new", step |-> "", key |-> ""]
    /\ ret = StepStateBytesDefault
    /\ warned = FALSE
    /\ warnings = 0
    /\ claims = 0
    /\ handed = [s \in StepIds |-> 0]
    /\ claimed = {}
    /\ GcIdle
    /\ SerIdle
    /\ ExtIdle

\* exchange two neighbouring changes of different FlowKeys
Reorder ==
    /\ pos = 0
    /\ \E i \in 1..(Len(perm) - 1) :
        /\ perm[i].key # perm[i + 1].key
        /\ perm' = SwapAt(perm, i)
    /\ UNCHANGED <<mainVars, flow2, pos, gcVars, serVars, extVars>>

\* write the next change of each log into its FlowStateBytes
ReplayNext ==
    /\ pos < Len(log)
    /\ flow' = FlowStateBytesWrite(flow, log[pos + 1])
    /\ flow2' = FlowStateBytesWrite(flow2, perm[pos + 1])
    /\ pos' = pos + 1
    /\ UNCHANGED <<log, op, ret, warned, warnings, claims, handed, claimed, perm, gcVars, serVars, extVars>>

NextReplay == Reorder \/ ReplayNext

SpecReplay == InitReplay /\ [][NextReplay]_vars

Spec == Init /\ [][Next]_vars

(* ------------------------ GC summary projection ------------------------ *)
SnapshotEpochs == 1..MaxEpoch

StoreKey(epoch, flow_key) == <<epoch, flow_key>>

\* StoreChange = KChange<StoreKey, Change<StateBytes>>
StoreChanges ==
    {KChange(StoreKey(e, FlowKey(s, k)), c) :
        e \in SnapshotEpochs, s \in StepIds, k \in StateKeys, c \in Changes}

\* Change<V> -> ChangeType: the value is dropped
ChangeTypeOf(change) == ChangeType(change.kind)

\* variant: the summary keeps the payload next to the kind
Summarize_KeepPayload(store_change) == KChange(store_change.key, store_change.change)

\* StoreChange -> StoreChangeSummary = KChange<StoreKey, ChangeType>
Summarize(store_change) == KChange(store_change.key, ChangeTypeOf(store_change.change))

InitGc ==
    /\ InitMain
    /\ ReplayIdle
    /\ SerIdle
    /\ ExtIdle
    /\ chg1 \in StoreChanges
    /\ chg2 \in StoreChanges
    /\ sum1 = KChange(<<0, FlowKey("", "")>>, ChangeType("none"))
    /\ sum2 = KChange(<<0, FlowKey("", "")>>, ChangeType("none"))
    /\ gcDone = FALSE

Project ==
    /\ ~gcDone
    /\ sum1' = Summarize(chg1)
    /\ sum2' = Summarize(chg2)
    /\ gcDone' = TRUE
    /\ UNCHANGED <<chg1, chg2, mainVars, replayVars, serVars, extVars>>

NextGc == Project

SpecGc == InitGc /\ [][NextGc]_vars

(* ------------------------- StateBytes::ser / de ------------------------ *)
\* bincode's encoding as StateBytes::ser and StateBytes::de call it:
\* fixed-width little-endian integers, one byte per bool and per Option
\* tag, a u64 length in front of a string, struct fields in order.
\* Strings are ASCII here and are written as their sequence of bytes.
SerTypes == {"bool", "u16", "SnapshotEpoch", "StateKey", "Option<StateKey>", "FlowKey", "StoreKey"}

Chars == {97, 98}

Strs == SeqsUpTo(Chars, MaxStrLen)

U16Samples == {0, 1, 255, 256, 65535}

EpochSamples == {0, 1, 256, 65536}

None == [some |-> FALSE, val |-> <<>>]

Some(v) == [some |-> TRUE, val |-> v]

ValuesOf(ty) ==
    CASE ty = "bool" -> BOOLEAN
      [] ty = "u16" -> U16Samples
      [] ty = "SnapshotEpoch" -> EpochSamples
      [] ty = "StateKey" -> Strs
      [] ty = "Option<StateKey>" -> {None} \cup {Some(v) : v \in Strs}
      [] ty = "FlowKey" -> Strs \X Strs
      [] ty = "StoreKey" -> EpochSamples \X (Strs \X Strs)

RECURSIVE LittleEndian(_, _)
LittleEndian(v, width) ==
    IF width = 0 THEN <<>> ELSE <<v % 256>> \o LittleEndian(v \div 256, width - 1)

\* integers of 2^24 and more are beyond the values that are serialized
\* here; decoding one yields TooBig
TooBig == 256 * 256 * 256

LittleEndianValue(b) ==
    IF \E i \in 4..Len(b) : b[i] # 0
    THEN TooBig
    ELSE (IF Len(b) >= 1 THEN b[1] ELSE 0)
         + (IF Len(b) >= 2 THEN 256 * b[2] ELSE 0)
         + (IF Len(b) >= 3 THEN 256 * 256 * b[3] ELSE 0)

EncBool(v) == IF v THEN <<1>> ELSE <<0>>

EncU16(v) == LittleEndian(v, 2)

EncU64(v) == LittleEndian(v, 8)

\* variant: the length of a string is written as a u32
EncString_Len32(v) == LittleEndian(Len(v), 4) \o v

EncString(v) == EncU64(Len(v)) \o v

EncOptionString(v) == IF v.some THEN <<1>> \o EncString(v.val) ELSE <<0>>

EncFlowKey(v) == EncString(v[1]) \o EncString(v[2])

EncStoreKey(v) == EncU64(v[1]) \o EncFlowKey(v[2])

\* bincode::serialize(obj)
BincodeSerialize(ty, v) ==
    CASE ty = "bool" -> EncBool(v)
      [] ty = "u16" -> EncU16(v)
      [] ty = "SnapshotEpoch" -> EncU64(v)
      [] ty = "StateKey" -> EncString(v)
      [] ty = "Option<StateKey>" -> EncOptionString(v)
      [] ty = "FlowKey" -> EncFlowKey(v)
      [] ty = "StoreKey" -> EncStoreKey(v)

\* a decoder returns whether it succeeded, the value and the bytes left over
DecodeError == [ok |-> FALSE, val |-> 0, rest |-> <<>>]

Decoded(v, rest) == [ok |-> TRUE, val |-> v, rest |-> rest]

Drop(b, n) == SubSeq(b, n + 1, Len(b))

DecBool(b) ==
    IF Len(b) < 1 \/ b[1] \notin {0, 1}
    THEN DecodeError
    ELSE Decoded(b[1] = 1, Drop(b, 1))

DecU16(b) ==
    IF Len(b) < 2 THEN DecodeError ELSE Decoded(LittleEndianValue(SubSeq(b, 1, 2)), Drop(b, 2))

DecU64(b) ==
    IF Len(b) < 8 THEN DecodeError ELSE Decoded(LittleEndianValue(SubSeq(b, 1, 8)), Drop(b, 8))

DecString(b) ==
    LET n == DecU64(b) IN
    IF ~n.ok
    THEN DecodeError
    ELSE IF Len(n.rest) < n.val \/ \E i \in 1..n.val : n.rest[i] > 127
         THEN DecodeError
         ELSE Decoded(SubSeq(n.rest, 1, n.val), Drop(n.rest, n.val))

DecOptionString(b) ==
    IF Len(b) < 1 \/ b[1] \notin {0, 1}
    THEN DecodeError
    ELSE IF b[1] = 0
         THEN Decoded(None, Drop(b, 1))
         ELSE LET inner == DecString(Drop(b, 1)) IN
              IF inner.ok THEN Decoded(Some(inner.val), inner.rest) ELSE DecodeError

DecFlowKey(b) ==
    LET step_id == DecString(b) IN
    IF ~step_id.ok
    THEN DecodeError
    ELSE LET state_key == DecString(step_id.rest) IN
         IF state_key.ok
         THEN Decoded(<<step_id.val, state_key.val>>, state_key.rest)
         ELSE DecodeError

DecStoreKey(b) ==
    LET epoch == DecU64(b) IN
    IF ~epoch.ok
    THEN DecodeError
    ELSE LET flow_key == DecFlowKey(epoch.rest) IN
         IF flow_key.ok
         THEN Decoded(<<epoch.val, flow_key.val>>, flow_key.rest)
         ELSE DecodeError

\* bincode::deserialize(&self.0); bytes left over are not an error
BincodeDeserialize(ty, b) ==
    CASE ty = "bool" -> DecBool(b)
      [] ty = "u16" -> DecU16(b)
      [] ty = "SnapshotEpoch" -> DecU64(b)
      [] ty = "StateKey" -> DecString(b)
      [] ty = "Option<StateKey>" -> DecOptionString(b)
      [] ty = "FlowKey" -> DecFlowKey(b)
      [] ty = "StoreKey" -> DecStoreKey(b)

InitSer ==
    /\ InitMain
    /\ ReplayIdle
    /\ GcIdle
    /\ ExtIdle
    /\ serTy \in SerTypes
    /\ serVal \in ValuesOf(serTy)
    /\ bytes = <<>>
    /\ deVal = FALSE
    /\ serPc = "start"

\* StateBytes::ser(&serVal)
Ser ==
    /\ serPc = "start"
    /\ bytes' = BincodeSerialize(serTy, serVal)
    /\ serPc' = "serialized"
    /\ UNCHANGED <<serTy, serVal, deVal, mainVars, replayVars, gcVars, extVars>>

\* T::default() of the serialized types
DefaultOf(ty) ==
    CASE ty = "bool" -> FALSE
      [] ty = "u16" -> 0
      [] ty = "SnapshotEpoch" -> 0
      [] ty = "StateKey" -> <<>>
      [] ty = "Option<StateKey>" -> None
      [] ty = "FlowKey" -> <<<<>>, <<>>>>
      [] ty = "StoreKey" -> <<0, <<<<>>, <<>>>>>>

\* variant: a decode error yields the default value (unwrap_or_default)
StateBytesDe_OrDefault(ty, b) ==
    LET r == BincodeDeserialize(ty, b)
    IN [panic |-> FALSE, val |-> IF r.ok THEN r.val ELSE DefaultOf(ty)]

\* bincode::deserialize(&self.0).unwrap_or_else(|_| panic!(...))
StateBytesDe(ty, b) ==
    LET r == BincodeDeserialize(ty, b)
    IN [panic |-> ~r.ok, val |-> r.val]

\* StateBytes::de::<serTy>(self): the decoded value, or a panic
De ==
    /\ serPc \in {"serialized", "drifted"}
    /\ LET r == StateBytesDe(serTy, bytes) IN
        /\ serPc' = IF r.panic THEN "panicked" ELSE "decoded"
        /\ deVal' = IF r.panic THEN deVal ELSE r.val
    /\ UNCHANGED <<serTy, serVal, bytes, mainVars, replayVars, gcVars, extVars>>

NextSer == Ser \/ De

SpecSer == InitSer /\ [][NextSer]_vars

\* what stored bytes can have become when they are read back: cut short,
\* one byte changed, or read as another type than they were written as
DriftBytes == {2, 200}

\* the types that are read back in the runs with drift
DeTypes == SerTypes \ {"StoreKey"}

DriftOutcomes(ty, b) ==
    {<<ty, SubSeq(b, 1, n)>> : n \in 0..(Len(b) - 1)}
    \cup {<<ty, [b EXCEPT ![i] = v]>> : i \in 1..Len(b), v \in DriftBytes}
    \cup {<<other, b>> : other \in DeTypes \ {ty}}

InitDe == InitSer /\ serTy \in DeTypes

Drift ==
    /\ serPc = "serialized"
    /\ \E outcome \in DriftOutcomes(serTy, bytes) :
        /\ serTy' = outcome[1]
        /\ bytes' = outcome[2]
    /\ serPc' = "drifted"
    /\ UNCHANGED <<serVal, deVal, mainVars, replayVars, gcVars, extVars>>

NextDe == Ser \/ Drift \/ De

SpecDe == InitDe /\ [][NextDe]_vars

(* ------------------------ comparison of the keys ----------------------- *)
\* the traits each key type derives
Derives ==
    [StepId |-> {"Debug", "Clone", "Hash", "PartialEq", "Eq", "Serialize", "Deserialize"},
     StateKey |-> {"Debug", "Clone", "Hash", "PartialEq", "Eq", "PartialOrd", "Ord",
                   "Serialize", "Deserialize"},
     FlowKey |-> {"Debug", "Clone", "Hash", "PartialEq", "Eq", "Serialize", "Deserialize"},
     SnapshotEpoch |-> {"Debug", "Copy", "Clone", "PartialEq", "Eq", "PartialOrd", "Ord", "Hash",
                        "Serialize", "Deserialize"},
     StoreKey |-> {"Debug", "Clone", "Hash", "PartialEq", "Eq", "Serialize", "Deserialize"}]

\* StoreKey(SnapshotEpoch, FlowKey(StepId, StateKey)) with its strings as bytes
StoreKeyValues == SnapshotEpochs \X (Strs \X Strs)

\* String == String: same length and the same bytes
StringEq(a, b) == Len(a) = Len(b) /\ \A i \in 1..Len(a) : a[i] = b[i]

\* String::cmp: the first differing byte decides, then the length
StringCmp(a, b) ==
    LET common == IF Len(a) < Len(b) THEN Len(a) ELSE Len(b)
        diff == {i \in 1..common : a[i] # b[i]}
    IN IF diff # {}
       THEN LET i == CHOOSE j \in diff : \A k \in diff : j <= k
            IN IF a[i] < b[i] THEN "Less" ELSE "Greater"
       ELSE IF Len(a) < Len(b) THEN "Less"
            ELSE IF Len(a) > Len(b) THEN "Greater" ELSE "Equal"

U64Cmp(a, b) == IF a < b THEN "Less" ELSE IF a > b THEN "Greater" ELSE "Equal"

\* derive(PartialEq) on the tuple structs: every field is compared
FlowKeyEq(a, b) == StringEq(a[1], b[1]) /\ StringEq(a[2], b[2])

\* variant: the epoch is left out of the comparison
StoreKeyEq_IgnoreEpoch(a, b) == FlowKeyEq(a[2], b[2])

StoreKeyEq(a, b) == a[1] = b[1] /\ FlowKeyEq(a[2], b[2])

\* the comparison a type offers: the derived Ord where there is one
DerivedCmp(ty, a, b) ==
    IF "Ord" \notin Derives[ty]
    THEN "none"
    ELSE CASE ty = "SnapshotEpoch" -> U64Cmp(a, b)
           [] ty = "StateKey" -> StringCmp(a, b)

InitKeys ==
    /\ InitMain
    /\ ReplayIdle
    /\ GcIdle
    /\ SerIdle
    /\ key1 \in StoreKeyValues
    /\ key2 \in StoreKeyValues
    /\ eqRes = FALSE
    /\ ordRes = "none"
    /\ epochOrd = "none"
    /\ stateKeyOrd = "none"
    /\ cmpDone = FALSE
    /\ SharedIdle
    /\ JaegerIdle
    /\ ClaimIdle
    /\ StepIdle

Compare ==
    /\ ~cmpDone
    /\ eqRes' = StoreKeyEq(key1, key2)
    /\ ordRes' = DerivedCmp("StoreKey", key1, key2)
    /\ epochOrd' = DerivedCmp("SnapshotEpoch", key1[1], key2[1])
    /\ stateKeyOrd' = DerivedCmp("StateKey", key1[2][2], key2[2][2])
    /\ cmpDone' = TRUE
    /\ UNCHANGED <<key1, key2, mainVars, replayVars, gcVars, serVars, sharedVars, jaegerVars, claimVars, stepVars>>

NextKeys == Compare

SpecKeys == InitKeys /\ [][NextKeys]_vars

(* ------------------- a StateWriter shared by handles ------------------- *)
\* an in-memory store: write appends the change to its log
StoreWrite(store_log, store_change) == Append(store_log, store_change)

\* its StateReader yields the retained changes in append order
StoreRead(store_log) == store_log

\* variant: a clone of a handle gets a copy of the writer
RcClone_DeepCopy(h, ptr) == [heap |-> Append(h, h[ptr]), ptr |-> Len(h) + 1]

\* Rc::clone: a new handle to the same writer
RcClone(h, ptr) == [heap |-> h, ptr |-> ptr]

\* KWriter::write for Rc<RefCell<P>>: self.borrow_mut().write(kchange)
RcRefCellWrite(h, ptr, store_change) == [h EXCEPT ![ptr] = StoreWrite(@, store_change)]

InitShared ==
    /\ InitMain
    /\ ReplayIdle
    /\ GcIdle
    /\ SerIdle
    /\ CmpIdle
    /\ SharedIdle
    /\ JaegerIdle
    /\ ClaimIdle
    /\ StepIdle

\* a collaborator is handed a clone of some handle
CloneHandle ==
    /\ Len(handles) < MaxHandles
    /\ \E i \in 1..Len(handles) :
        LET c == RcClone(heap, handles[i]) IN
        /\ heap' = c.heap
        /\ handles' = Append(handles, c.ptr)
    /\ UNCHANGED <<issued, readOut, readDone, mainVars, replayVars, gcVars, serVars, cmpVars, jaegerVars, claimVars, stepVars>>

\* a collaborator writes one change through its handle
WriteVia ==
    /\ Len(issued) < MaxStoreLog
    /\ \E i \in 1..Len(handles), store_change \in StoreChanges :
        /\ heap' = RcRefCellWrite(heap, handles[i], store_change)
        /\ issued' = Append(issued, store_change)
    /\ UNCHANGED <<handles, readOut, readDone, mainVars, replayVars, gcVars, serVars, cmpVars, jaegerVars, claimVars, stepVars>>

\* the store is read back
ReadStore ==
    /\ ~readDone
    /\ readOut' = StoreRead(heap[1])
    /\ readDone' = TRUE
    /\ UNCHANGED <<heap, handles, issued, mainVars, replayVars, gcVars, serVars, cmpVars, jaegerVars, claimVars, stepVars>>

NextShared == CloneHandle \/ WriteVia \/ ReadStore

SpecShared == InitShared /\ [][NextShared]_vars

(* ----------------------------- JaegerConfig ---------------------------- *)
ServiceNames == {"", "flow"}

Endpoints == {"10.9.9.9:6831", "10.0.0.1:6832"}

JaegerConfigs ==
    {JaegerConfig(n, e) : n \in ServiceNames, e \in {NoString} \cup {SomeString(x) : x \in Endpoints}}

EnvHosts == {NoString, SomeString("10.0.0.1")}

EnvPorts == {NoString, SomeString("6832")}

\* opentelemetry_jaeger::new_agent_pipeline(): the agent endpoint comes from
\* the two environment variables, each with its default
NewAgentPipeline(host, port) ==
    (IF host.some THEN host.val ELSE "127.0.0.1") \o ":" \o (IF port.some THEN port.val ELSE "6831")

\* variant: the environment wins over the endpoint of the config
SetupEndpoint_EnvFirst(cfg, host, port) ==
    IF host.some \/ port.some \/ ~cfg.endpoint.some
    THEN NewAgentPipeline(host, port)
    ELSE cfg.endpoint.val

\* JaegerConfig::setup: with_endpoint overwrites the endpoint if one is set
SetupEndpoint(cfg, host, port) ==
    IF cfg.endpoint.some THEN cfg.endpoint.val ELSE NewAgentPipeline(host, port)

\* Option<String> as a Python object
PyOptionString(v) == IF v.some THEN PyStr(v.val) ELSE PyNone

\* variant: the endpoint is not pickled
PyGetState_NoEndpoint(cfg) ==
    PyTuple(<<PyStr("JaegerConfig"), PyStr(cfg.service_name), PyNone>>)

\* JaegerConfig::__getstate__
PyGetState(cfg) ==
    PyTuple(<<PyStr("JaegerConfig"), PyStr(cfg.service_name), PyOptionString(cfg.endpoint)>>)

\* JaegerConfig::__getnewargs__ handed to JaegerConfig::py_new
PyNewBlank == JaegerConfig("", NoString)

\* state.extract::<(&str, String, Option<String>)>()
PyExtract(state) ==
    IF /\ state.shape = "tuple"
       /\ Len(state.items) = 3
       /\ state.items[1].ty = "str"
       /\ state.items[2].ty = "str"
       /\ state.items[3].ty \in {"str", "none"}
    THEN [ok |-> TRUE,
          tag |-> state.items[1].val,
          service_name |-> state.items[2].val,
          endpoint |-> IF state.items[3].ty = "str" THEN SomeString(state.items[3].val) ELSE NoString]
    ELSE [ok |-> FALSE, tag |-> "", service_name |-> "", endpoint |-> NoString]

\* variant: the tag of the tuple is not looked at
PySetState_AnyTag(self, state) ==
    LET x == PyExtract(state) IN
    IF x.ok
    THEN [self |-> JaegerConfig(x.service_name, x.endpoint), result |-> "Ok"]
    ELSE [self |-> self, result |-> "ValueError"]

\* JaegerConfig::__setstate__
PySetState(self, state) ==
    LET x == PyExtract(state) IN
    IF x.ok /\ x.tag = "JaegerConfig"
    THEN [self |-> JaegerConfig(x.service_name, x.endpoint), result |-> "Ok"]
    ELSE [self |-> self, result |-> "ValueError"]

\* objects that are not a ("JaegerConfig", service_name, endpoint) tuple
BadStates ==
    {PyTuple(<<PyStr("SqliteRecoveryConfig"), PyStr("flow"), PyStr("10.9.9.9:6831")>>),
     PyTuple(<<PyStr("JaegerConfig"), PyStr("flow")>>),
     PyTuple(<<PyStr("JaegerConfig"), PyStr("flow"), PyNone, PyNone>>),
     PyTuple(<<PyStr("JaegerConfig"), PyInt("7"), PyNone>>),
     PyTuple(<<PyStr("JaegerConfig"), PyStr("flow"), PyInt("6831")>>),
     PyTuple(<<PyInt("7"), PyStr("flow"), PyNone>>),
     PyList(<<PyStr("JaegerConfig"), PyStr("flow"), PyNone>>),
     PyScalar(PyNone)}

InitJaeger ==
    /\ InitMain
    /\ ReplayIdle
    /\ GcIdle
    /\ SerIdle
    /\ CmpIdle
    /\ SharedIdle
    /\ ClaimIdle
    /\ StepIdle
    /\ jcfg \in JaegerConfigs
    /\ jtarget \in JaegerConfigs
    /\ jbefore = jtarget
    /\ pickled = PyScalar(PyNone)
    /\ setResult = "none"
    /\ envHost \in EnvHosts
    /\ envPort \in EnvPorts
    /\ agentEndpoint = "unset"
    /\ jop = "new"

notJaeger == <<mainVars, replayVars, gcVars, serVars, cmpVars, sharedVars, claimVars, stepVars>>

\* jcfg.setup()
Setup ==
    /\ agentEndpoint = "unset"
    /\ agentEndpoint' = SetupEndpoint(jcfg, envHost, envPort)
    /\ jop' = "setup"
    /\ UNCHANGED <<jcfg, jtarget, jbefore, pickled, setResult, envHost, envPort, notJaeger>>

\* pickle jcfg
GetState ==
    /\ pickled' = PyGetState(jcfg)
    /\ jop' = "getstate"
    /\ UNCHANGED <<jcfg, jtarget, jbefore, setResult, envHost, envPort, agentEndpoint, notJaeger>>

\* some other object is about to be unpickled
ForeignState ==
    /\ \E state \in BadStates : pickled' = state
    /\ jop' = "foreign"
    /\ UNCHANGED <<jcfg, jtarget, jbefore, setResult, envHost, envPort, agentEndpoint, notJaeger>>

\* unpickling builds the instance: JaegerConfig(*__getnewargs__())
NewFromArgs ==
    /\ jtarget' = PyNewBlank
    /\ jop' = "newargs"
    /\ UNCHANGED <<jcfg, jbefore, pickled, setResult, envHost, envPort, agentEndpoint, notJaeger>>

\* jtarget.__setstate__(pickled)
SetState ==
    /\ jop \in {"getstate", "foreign", "newargs"}
    /\ LET r == PySetState(jtarget, pickled) IN
        /\ jtarget' = r.self
        /\ setResult' = r.result
    /\ jbefore' = jtarget
    /\ jop' = "setstate"
    /\ UNCHANGED <<jcfg, pickled, envHost, envPort, agentEndpoint, notJaeger>>

NextJaeger == Setup \/ GetState \/ ForeignState \/ NewFromArgs \/ SetState

SpecJaeger == InitJaeger /\ [][NextJaeger]_vars

(* ------------------ two orders of claiming one resume ------------------ *)
RECURSIVE ReplayAll(_, _)
ReplayAll(f, changes) ==
    IF changes = <<>>
    THEN f
    ELSE ReplayAll(FlowStateBytesWrite(f, Head(changes)), Tail(changes))

\* one log is replayed into two FlowStateBytes; every step claims once from
\* each, in an order of its own
InitClaim ==
    /\ log \in SeqsUpTo(FlowChanges, MaxReplay)
    /\ flow = ReplayAll(FlowStateBytesNew, log)
    /\ flow2 = flow
    /\ perm = <<>>
    /\ pos = 0
    /\ op = [kind |-> "new", step |-> "", key |-> ""]
    /\ ret = StepStateBytesDefault
    /\ warned = FALSE
    /\ warnings = 0
    /\ claims = 0
    /\ handed = [s \in StepIds |-> 0]
    /\ claimed = {}
    /\ GcIdle
    /\ SerIdle
    /\ CmpIdle
    /\ SharedIdle
    /\ JaegerIdle
    /\ ClaimIdle
    /\ StepIdle

ClaimFirst ==
    /\ \E step_id \in StepIds \ claimed :
        LET r == FlowStateBytesRemove(flow, step_id) IN
        /\ flow' = r.flow
        /\ warned1' = IF r.warn THEN warned1 \cup {step_id} ELSE warned1
        /\ claimed' = claimed \cup {step_id}
    /\ UNCHANGED <<log, op, ret, warned, warnings, claims, handed, replayVars,
                   warned2, claimed2, gcVars, serVars, cmpVars, sharedVars, jaegerVars, stepVars>>

ClaimSecond ==
    /\ \E step_id \in StepIds \ claimed2 :
        LET r == FlowStateBytesRemove(flow2, step_id) IN
        /\ flow2' = r.flow
        /\ warned2' = IF r.warn THEN warned2 \cup {step_id} ELSE warned2
        /\ claimed2' = claimed2 \cup {step_id}
    /\ UNCHANGED <<mainVars, perm, pos, warned1, gcVars, serVars, cmpVars, sharedVars, jaegerVars, stepVars>>

NextClaim == ClaimFirst \/ ClaimSecond

SpecClaim == InitClaim /\ [][NextClaim]_vars

(* ------------------- a step draining its snapshot --------------------- *)
StepStateBytesIsEmpty(m) == DOMAIN m = {}

StepStateBytesKeys(m) == DOMAIN m

\* variant: the whole snapshot is dropped with the key
StepStateBytesRemove_Clear(m, key) ==
    [map |-> EmptyMap, out |-> IF key \in DOMAIN m THEN m[key] ELSE NoValue]

\* StepStateBytes::remove: the map left behind and the Option returned
StepStateBytesRemove(m, key) ==
    [map |-> MapRemove(m, key), out |-> IF key \in DOMAIN m THEN m[key] ELSE NoValue]

InitStep ==
    /\ InitMain
    /\ ReplayIdle
    /\ GcIdle
    /\ SerIdle
    /\ CmpIdle
    /\ SharedIdle
    /\ JaegerIdle
    /\ ClaimIdle
    /\ StepIdle

notStep == <<mainVars, replayVars, gcVars, serVars, cmpVars, sharedVars, jaegerVars, claimVars>>

\* KWriter::write on the snapshot
StepWrite ==
    /\ stepOps < MaxStepOps
    /\ \E key \in StateKeys, change \in Changes :
        /\ owned' = StepStateBytesWrite(owned, KChange(key, change))
        /\ stepOp' = [kind |-> "write", key |-> key]
    /\ stepOps' = stepOps + 1
    /\ UNCHANGED <<got, emptyRes, notStep>>

StepRemove ==
    /\ stepOps < MaxStepOps
    /\ \E key \in StateKeys :
        LET r == StepStateBytesRemove(owned, key) IN
        /\ owned' = r.map
        /\ got' = r.out
        /\ stepOp' = [kind |-> "remove", key |-> key]
    /\ stepOps' = stepOps + 1
    /\ UNCHANGED <<emptyRes, notStep>>

StepIsEmpty ==
    /\ stepOps < MaxStepOps
    /\ emptyRes' = StepStateBytesIsEmpty(owned)
    /\ stepOp' = [kind |-> "is_empty", key |-> ""]
    /\ stepOps' = stepOps + 1
    /\ UNCHANGED <<owned, got, notStep>>

NextStep == StepWrite \/ StepRemove \/ StepIsEmpty

SpecStep == InitStep /\ [][NextStep]_vars

(* ------------------------- observations of a run ----------------------- *)
\* the value a FlowStateBytes holds for FlowKey(step_id, state_key), if any
Lookup(f, step_id, state_key) ==
    IF step_id \in DOMAIN f
    THEN (IF state_key \in DOMAIN f[step_id] THEN f[step_id][state_key] ELSE NoValue)
    ELSE NoValue

\* the value of the last change of a FlowKey in a sequence of changes
LastValue(changes, step_id, state_key) ==
    LET idx == {i \in 1..Len(changes) : changes[i].key = FlowKey(step_id, state_key)}
    IN IF idx = {}
       THEN NoValue
       ELSE LET last == CHOOSE i \in idx : \A j \in idx : j <= i
            IN changes[last].change.value

\* this step is a call of FlowStateBytes::write
IsWrite == Len(log') = Len(log) + 1

\* this step is a call of FlowStateBytes::remove(step_id)
IsRemove(step_id) == claims' = claims + 1 /\ op'.step = step_id

\* a step holds at least one key's value
HoldsValue(f, step_id) == step_id \in DOMAIN f /\ DOMAIN f[step_id] # {}

(* ------------------------------- claims -------------------------------- *)

\* C1: after any sequence of changes written in order into a fresh
\* FlowStateBytes (no claim made yet), every FlowKey maps to the value of
\* its last upsert, and to nothing when its last change was a delete or it
\* was never written.
C1_LastWriteWins ==
    claims = 0 =>
        \A s \in StepIds, k \in StateKeys : Lookup(flow, s, k) = LastValue(log, s, k)

\* C1 witness: upsert(bytes1) then upsert(bytes2) for FlowKey("a", "k1")
\* leaves step "a" holding {"k1": bytes2}.
C1_Witness ==
    /\ claims = 0
    /\ log = <<KChange(FlowKey("a", "k1"), Upsert(1)), KChange(FlowKey("a", "k1"), Upsert(2))>>
    /\ flow = [s \in {"a"} |-> [k \in {"k1"} |-> 2]]

\* C2: when step "b" has recorded state and nothing is recorded for step
\* "a", remove("a") returns an empty StepStateBytes and emits exactly one
\* warning; remove("b") returns b's recorded map and emits no warning.
C2_ResumeScenario ==
    [][ ("a" \notin FlowStateBytesKeys(flow) /\ HoldsValue(flow, "b")) =>
          /\ IsRemove("a") => (ret' = EmptyMap /\ warned' /\ warnings' = warnings + 1)
          /\ IsRemove("b") => (ret' = flow["b"] /\ ~warned' /\ warnings' = warnings)
      ]_vars

\* C2 witness: "a" claimed with a warning while "b" still holds its state.
C2_Witness ==
    /\ op.kind = "remove" /\ op.step = "a" /\ warned /\ warnings = 1
    /\ ret = EmptyMap
    /\ "a" \notin FlowStateBytesKeys(flow) /\ HoldsValue(flow, "b")

\* C3: a remove emits the missing-state warning only when some other step
\* holds at least one key's value at the moment of the call.
C3_WarnOnlyIfOtherStepHasState ==
    [][ \A s \in StepIds :
          (IsRemove(s) /\ warned') => \E o \in StepIds \ {s} : HoldsValue(flow, o)
      ]_vars

\* C4: on a cold start (no change ever written) every remove returns an
\* empty StepStateBytes and no warning is ever emitted.
C4_ColdStart ==
    log = <<>> => (ret = EmptyMap /\ ~warned /\ warnings = 0 /\ flow = FlowStateBytesNew)

\* C4 witness: two claims were made on a FlowStateBytes nobody wrote into.
C4_Witness == log = <<>> /\ claims >= 2 /\ op.kind = "remove"

\* C5: a second remove of a step, with no write for that step in between,
\* returns an empty StepStateBytes (remove is total: it returns a value in
\* every case and has no failing branch).
C5_SecondRemoveEmpty ==
    [][ \A s \in StepIds :
          (s \in claimed /\ IsRemove(s)) => ret' = EmptyMap
      ]_vars

\* C5 witness: step "a" held state and was claimed twice; the first claim
\* found the entry, the second returned the empty map.
C5_Witness ==
    /\ log = <<KChange(FlowKey("a", "k1"), Upsert(1))>>
    /\ op.kind = "remove" /\ op.step = "a" /\ claims = 2
    /\ handed["a"] = 1 /\ warnings = 0
    /\ ret = EmptyMap

\* C6: after remove(step) the builder holds no entry for that step, and
\* between writes at most one remove call per step finds an entry.
C6_ClaimedOnce ==
    /\ op.kind = "remove" => op.step \notin FlowStateBytesKeys(flow)
    /\ \A s \in StepIds : handed[s] <= 1

\* C6 witness: both steps had state and each was claimed.
C6_Witness ==
    /\ op.kind = "remove"
    /\ \A s \in StepIds : handed[s] = 1
    /\ ret # EmptyMap
    /\ FlowStateBytesKeys(flow) = {}

\* C7: a write for FlowKey(s, k) leaves every other FlowKey's value and
\* every other step's entry unchanged; remove(s) returns only values that
\* were written under step s and leaves every other step's entry unchanged.
C7_NoMixing ==
    [][ /\ IsWrite =>
            /\ \A s \in StepIds, k \in StateKeys :
                 FlowKey(s, k) # FlowKey(op'.step, op'.key) =>
                     Lookup(flow', s, k) = Lookup(flow, s, k)
            /\ \A s \in StepIds \ {op'.step} :
                 /\ (s \in DOMAIN flow') = (s \in DOMAIN flow)
                 /\ s \in DOMAIN flow => flow'[s] = flow[s]
        /\ \A s \in StepIds : IsRemove(s) =>
            /\ \A k \in DOMAIN ret' :
                 \E i \in 1..Len(log) :
                     log[i] = KChange(FlowKey(s, k), Upsert(ret'[k]))
            /\ \A o \in StepIds \ {s} :
                 /\ (o \in DOMAIN flow') = (o \in DOMAIN flow)
                 /\ o \in DOMAIN flow => flow'[o] = flow[o]
      ]_vars

\* C7 witness: step "a" was claimed and got its own value while step "b"
\* keeps a different value under the same key.
C7_Witness ==
    /\ op.kind = "remove" /\ op.step = "a"
    /\ ret = [k \in {"k1"} |-> 1]
    /\ "b" \in DOMAIN flow /\ flow["b"] = [k \in {"k1"} |-> 2]

\* the changes of one FlowKey, in the order they appear in a sequence
ChangesOf(changes, key) == SelectSeq(changes, LAMBDA c : c.key = key)

\* C8: two sequences with the same entries that agree on the order of each
\* FlowKey's changes produce the same FlowStateBytes when replayed.
C8_OrderInsensitive ==
    /\ \A s \in StepIds, k \in StateKeys :
         ChangesOf(perm, FlowKey(s, k)) = ChangesOf(log, FlowKey(s, k))
    /\ (pos = Len(log) /\ Len(perm) = Len(log)) => flow2 = flow

\* C8 witness: a delete of ("a", "k1") was moved in front of an upsert of
\* ("a", "k2") and a change of step "b"; both replays are complete.
C8_Witness ==
    /\ pos = Len(log) /\ pos = 3
    /\ perm # log
    /\ perm[1] = log[3]
    /\ log[3] = KChange(FlowKey("a", "k1"), Discard)
    /\ log[1] = KChange(FlowKey("a", "k2"), Upsert(1))
    /\ log[2].key[1] = "b"

\* C9: the summary of a store change keeps its StoreKey and its change
\* kind, and two changes with the same StoreKey and kind but different
\* payload bytes have the same summary.
C9_SummaryIgnoresPayload ==
    gcDone =>
        /\ sum1.key = chg1.key /\ sum1.change = ChangeType(chg1.change.kind)
        /\ sum2.key = chg2.key /\ sum2.change = ChangeType(chg2.change.kind)
        /\ (chg1.key = chg2.key /\ chg1.change.kind = chg2.change.kind) => sum1 = sum2

\* C9 witness: two upserts of the same StoreKey with different payloads
\* were projected.
C9_Witness ==
    /\ gcDone
    /\ chg1 = KChange(StoreKey(1, FlowKey("a", "k1")), Upsert(1))
    /\ chg2 = KChange(StoreKey(1, FlowKey("a", "k1")), Upsert(2))
    /\ sum1 = KChange(StoreKey(1, FlowKey("a", "k1")), ChangeType("upsert"))
    /\ sum2 = sum1

\* C10: de applied to the bytes ser produced for a value returns a value
\* equal to it (and does not panic).
C10_RoundTrip ==
    serPc \in {"decoded", "panicked"} => (serPc = "decoded" /\ deVal = serVal)

\* C10 witness: a StoreKey with a multi-byte epoch and two different
\* strings went through ser and de.
C10_Witness ==
    /\ serPc = "decoded"
    /\ serTy = "StoreKey"
    /\ serVal = <<256, <<<<97>>, <<98, 97>>>>>>
    /\ bytes = <<0, 1, 0, 0, 0, 0, 0, 0,
                 1, 0, 0, 0, 0, 0, 0, 0, 97,
                 2, 0, 0, 0, 0, 0, 0, 0, 98, 97>>
    /\ deVal = serVal

\* lexicographic comparison of two (SnapshotEpoch, StepId, StateKey) triples
LexCmp(a, b) ==
    IF a[1] # b[1] THEN U64Cmp(a[1], b[1])
    ELSE IF a[2][1] # b[2][1] THEN StringCmp(a[2][1], b[2][1])
    ELSE StringCmp(a[2][2], b[2][2])

\* C11 as stated: StoreKey has an equality and a total order, and both
\* agree with the lexicographic comparison of (SnapshotEpoch, StepId,
\* StateKey).
C11_EqAndOrderLexicographic ==
    cmpDone =>
        /\ eqRes = (key1 = key2)
        /\ ordRes = LexCmp(key1, key2)

\* C11 as amended: two StoreKeys are equal iff all three components are
\* equal; StoreKey itself has no order, only its SnapshotEpoch and its
\* StateKey are totally ordered, by their number and by their string.
C11_EqStructuralNoOrder ==
    cmpDone =>
        /\ eqRes = (key1[1] = key2[1] /\ key1[2][1] = key2[2][1] /\ key1[2][2] = key2[2][2])
        /\ ordRes = "none"
        /\ epochOrd = LexCmp(<<key1[1], <<<<>>, <<>>>>>>, <<key2[1], <<<<>>, <<>>>>>>)
        /\ stateKeyOrd = LexCmp(<<0, <<<<>>, key1[2][2]>>>>, <<0, <<<<>>, key2[2][2]>>>>)

\* C11 witness: two StoreKeys that differ only in their epoch were compared.
C11_Witness ==
    /\ cmpDone
    /\ key1 = <<1, <<<<97>>, <<98>>>>>>
    /\ key2 = <<2, <<<<97>>, <<98>>>>>>
    /\ ~eqRes /\ epochOrd = "Less" /\ stateKeyOrd = "Equal"

IsPrefix(p, q) == Len(p) <= Len(q) /\ SubSeq(q, 1, Len(p)) = p

\* a decoded value with no integer beyond the range of this model
InRange(ty, v) ==
    CASE ty = "SnapshotEpoch" -> v # TooBig
      [] ty = "StoreKey" -> v[1] # TooBig
      [] OTHER -> TRUE

\* C12: de panics when the bytes do not decode to the requested type, and
\* a value it returns is fully decoded from the bytes (its encoding is what
\* the bytes start with): no default and no partial value is produced.
C12_DecodeFailurePanics ==
    /\ serPc = "panicked" =>
          /\ deVal = FALSE
          /\ ~\E v \in ValuesOf(serTy) : IsPrefix(BincodeSerialize(serTy, v), bytes)
    /\ (serPc = "decoded" /\ InRange(serTy, deVal)) =>
          IsPrefix(BincodeSerialize(serTy, deVal), bytes)

\* C12 witness: the bytes of a FlowKey lost their last byte and de panicked.
C12_Witness ==
    /\ serPc = "panicked"
    /\ serTy = "FlowKey"
    /\ serVal = <<<<97>>, <<98>>>>
    /\ bytes = <<1, 0, 0, 0, 0, 0, 0, 0, 97, 1, 0, 0, 0, 0, 0, 0, 0>>

\* the changes of one FlowKey in a sequence of store changes, in order
StoreChangesOf(store_changes, flow_key) ==
    SelectSeq(store_changes, LAMBDA c : c.key[2] = flow_key)

\* C13: every write through any handle to a shared StateWriter is appended
\* to the one underlying log in call order, so the reader yields the
\* changes of each FlowKey in the order they were written.
C13_SharedWriterAppendOrder ==
    /\ heap[1] = issued
    /\ readDone =>
          \A s \in StepIds, k \in StateKeys :
              StoreChangesOf(readOut, FlowKey(s, k))
                  = StoreChangesOf(SubSeq(issued, 1, Len(readOut)), FlowKey(s, k))

\* C13 witness: two handles exist, two changes of one FlowKey were written
\* and read back in the order of the calls.
C13_Witness ==
    /\ Len(handles) = 2
    /\ readDone
    /\ issued = <<KChange(StoreKey(1, FlowKey("a", "k1")), Upsert(1)),
                  KChange(StoreKey(2, FlowKey("a", "k1")), Upsert(2))>>
    /\ readOut = issued

\* C14: setup uses the endpoint of the config if one was given, otherwise
\* the one of the two environment variables if they are set, otherwise
\* 127.0.0.1:6831; the environment never overrides a config endpoint.
C14_EndpointPrecedence ==
    agentEndpoint # "unset" =>
        /\ jcfg.endpoint.some => agentEndpoint = jcfg.endpoint.val
        /\ (~jcfg.endpoint.some /\ envHost.some /\ envPort.some) =>
              agentEndpoint = envHost.val \o ":" \o envPort.val
        /\ (~jcfg.endpoint.some /\ ~envHost.some /\ ~envPort.some) =>
              agentEndpoint = "127.0.0.1:6831"

\* C14 witness: a config endpoint was used although both environment
\* variables name another one.
C14_Witness ==
    /\ jop = "setup"
    /\ jcfg.endpoint = SomeString("10.9.9.9:6831")
    /\ envHost.some /\ envPort.some
    /\ agentEndpoint = "10.9.9.9:6831"

\* C17: __setstate__ applied to the tuple __getstate__ made of a config,
\* on any instance, succeeds and leaves the instance with the service_name
\* and the endpoint of that config.
C17_PickleRoundTrip ==
    (jop = "setstate" /\ pickled \notin BadStates) =>
        /\ setResult = "Ok"
        /\ jtarget.service_name = jcfg.service_name
        /\ jtarget.endpoint = jcfg.endpoint

\* C17 witness: the blank instance built from __getnewargs__ took over a
\* config with a service name and an endpoint.
C17_Witness ==
    /\ jop = "setstate"
    /\ pickled = PyTuple(<<PyStr("JaegerConfig"), PyStr("flow"), PyStr("10.9.9.9:6831")>>)
    /\ jbefore = PyNewBlank
    /\ jtarget = JaegerConfig("flow", SomeString("10.9.9.9:6831"))
    /\ jtarget = jcfg
    /\ setResult = "Ok"

\* C18: __setstate__ given an object that is not a ("JaegerConfig",
\* service_name, endpoint) tuple returns a ValueError and leaves the
\* service_name and the endpoint of the instance unchanged.
C18_BadStateRejected ==
    (jop = "setstate" /\ pickled \in BadStates) =>
        /\ setResult = "ValueError"
        /\ jtarget = jbefore

\* C18 witness: a well-formed tuple with another tag was rejected by an
\* instance that has a service name and an endpoint.
C18_Witness ==
    /\ jop = "setstate"
    /\ pickled = PyTuple(<<PyStr("SqliteRecoveryConfig"), PyStr("flow"), PyStr("10.9.9.9:6831")>>)
    /\ setResult = "ValueError"
    /\ jtarget = JaegerConfig("", SomeString("10.0.0.1:6832"))
    /\ jbefore = jtarget

\* C15: for one replayed log and all steps claiming once, the set of steps
\* that are warned about is the same for every order of the claims.
C15_WarningsOrderIndependent ==
    (claimed = StepIds /\ claimed2 = StepIds) => warned1 = warned2

\* this step is a call of the named method on the snapshot
IsStepCall(kind) == stepOps' = stepOps + 1 /\ stepOp'.kind = kind

\* C16: StepStateBytes::remove(key) returns the bytes stored for the key,
\* or None; it deletes only that key; an immediate second remove of the key
\* returns None; is_empty() is true exactly when no key remains.
C16_StepRemove ==
    [][ /\ IsStepCall("remove") =>
            /\ got' = (IF stepOp'.key \in DOMAIN owned THEN owned[stepOp'.key] ELSE NoValue)
            /\ stepOp'.key \notin DOMAIN owned'
            /\ \A k \in StateKeys \ {stepOp'.key} :
                 /\ (k \in DOMAIN owned') = (k \in DOMAIN owned)
                 /\ k \in DOMAIN owned => owned'[k] = owned[k]
            /\ (stepOp.kind = "remove" /\ stepOp.key = stepOp'.key) => got' = NoValue
        /\ IsStepCall("is_empty") =>
            emptyRes' = (\A k \in StateKeys : k \notin StepStateBytesKeys(owned))
      ]_vars

\* C16 witness: "k1" was removed and returned its bytes while "k2" kept its
\* own.
C16_Witness ==
    /\ stepOp = [kind |-> "remove", key |-> "k1"]
    /\ got = 1
    /\ owned = [k \in {"k2"} |-> 2]

====
